---- MODULE Spec2Model ----
(***************************************************************************)
(* gremp: a line-oriented substring search tool (src/src/lib.rs,           *)
(* src/src/main.rs).                                                       *)
(*                                                                         *)
(* Text is a sequence of characters, each a token: "a" and "A" (a cased    *)
(* letter and its capital), "SIGMA", "sigma", "fsigma" (U+03A3, U+03C3,    *)
(* U+03C2), "'" (a case-ignorable character), "LF" and "CR" (U+000A,       *)
(* U+000D), the decimal digits, "." and " ".                               *)
(*                                                                         *)
(* Two specifications:                                                     *)
(*   SpecMatch  the two matchers applied to bounded pattern and contents;  *)
(*   Spec       one process: main, Config::new and run, with the           *)
(*              environment variable, the file system and the output sink  *)
(*              as the environment.                                        *)
(***************************************************************************)
EXTENDS Integers, Sequences, FiniteSets, TLC

VARIABLES
    args,          \* the process's command line (program name first)
    envVar,        \* state of CASE_INSENSITIVE in the process environment
    fs,            \* file system: path -> contents or a read error
    stdoutOpen,    \* whether a write to standard output succeeds
    pc,            \* position of the process
    configRes,     \* the Result returned by Config::new
    pattern,       \* the pattern argument of the matcher
    contents,      \* the contents read by run / the contents argument
    results,       \* the Vec returned by the matcher
    matcherUsed,   \* the matcher that produced results
    idx,           \* entries of results consumed by run's for loop
    stdout,        \* records written to standard output
    stderr,        \* diagnostics written to standard error
    exitStatus,    \* exit status of the process, NoExit while it runs
    runResult,     \* the Result returned by run
    readAttempts   \* calls of fs::read_to_string so far

vars == <<args, envVar, fs, stdoutOpen, pc, configRes, pattern, contents,
          results, matcherUsed, idx, stdout, stderr, exitStatus, runResult,
          readAttempts>>

(***************************************************************************)
(* Bounds                                                                  *)
(***************************************************************************)
MaxContentsLen == 3

MaxPatternLen == 2

MaxArgs == 4

\* characters the matcher inputs are drawn from
Alphabet == {"a", "A", "SIGMA", "'", "LF", "CR"}

RECURSIVE Strings(_)
Strings(n) ==
    IF n = 0 THEN {<<>>}
    ELSE LET shorter == Strings(n - 1)
         IN  shorter \cup {Append(s, c) : s \in shorter, c \in Alphabet}

\* command-line arguments: the empty string, "a" and "Aa"
ArgStrings == {<<>>, <<"a">>, <<"A", "a">>}

\* the one path of the file system that may name a readable file
SamplePath == <<"A", "a">>

SampleContents ==
    { <<>>,
      <<"a", "LF", "A", "a", "LF">>,
      <<"A", "CR", "LF", "LF", "'", "a">> }

ReadErrors == {"NotFound", "InvalidData"}

\* io::Result<String>, the value of fs::read_to_string
ReadOk(data) == [ok |-> TRUE, data |-> data, error |-> "none"]

ReadErr(kind) == [ok |-> FALSE, data |-> <<>>, error |-> kind]

FileStates == {ReadOk(d) : d \in SampleContents} \cup {ReadErr(k) : k \in ReadErrors}

EnvStates == {"Absent", "Unicode", "NotUnicode"}

NoExit == -1

\* placeholder of the Config before Config::new has returned one
NoConfig == [pattern |-> <<>>, filename |-> <<>>, case_sensitive |-> TRUE]

NoResult == [tag |-> "None", config |-> NoConfig, err |-> "none"]

(***************************************************************************)
(* Library functions of the matchers                                       *)
(***************************************************************************)
\* str::lines, first half: split_inclusive('\n')
RECURSIVE SplitInclusive(_)
SplitInclusive(s) ==
    IF s = <<>> THEN <<>>
    ELSE LET lfs == {i \in 1..Len(s) : s[i] = "LF"}
         IN  IF lfs = {} THEN <<s>>
             ELSE LET k == CHOOSE i \in lfs : \A j \in lfs : i <= j
                  IN  <<SubSeq(s, 1, k)>> \o SplitInclusive(SubSeq(s, k + 1, Len(s)))

\* str::lines, second half: strip the "\n", then a "\r" before it (a "\r" that
\* no "\n" follows stays part of the line)
LinesMap(piece) ==
    IF piece = <<>> \/ piece[Len(piece)] /= "LF" THEN piece
    ELSE LET line == SubSeq(piece, 1, Len(piece) - 1)
         IN  IF line = <<>> \/ line[Len(line)] /= "CR" THEN line
             ELSE SubSeq(line, 1, Len(line) - 1)

\* a mutant of Lines: a trailing newline yields one more, empty, line
LinesTrailingEmpty(text) ==
    LET pieces == SplitInclusive(text)
        ls == [i \in 1..Len(pieces) |-> LinesMap(pieces[i])]
    IN  IF text /= <<>> /\ text[Len(text)] = "LF" THEN Append(ls, <<>>) ELSE ls

\* contents.lines()
Lines(text) ==
    LET pieces == SplitInclusive(text)
    IN  [i \in 1..Len(pieces) |-> LinesMap(pieces[i])]

\* line.contains(pattern)
Contains(line, pat) ==
    \E i \in 0..(Len(line) - Len(pat)) : SubSeq(line, i + 1, i + Len(pat)) = pat

\* Unicode property Cased
Cased(c) == c \in {"a", "A", "SIGMA", "sigma", "fsigma"}

\* Unicode property Case_Ignorable
Case_Ignorable(c) == c \in {"'", "."}

\* char-to-lowercase table used by str::to_lowercase for all but U+03A3
to_lower(c) == IF c = "A" THEN <<"a">> ELSE <<c>>

Reverse(s) == [i \in 1..Len(s) |-> s[Len(s) + 1 - i]]

\* skip the case-ignorable characters, then test the next one for Cased
RECURSIVE case_ignorable_then_cased(_)
case_ignorable_then_cased(s) ==
    IF s = <<>> THEN FALSE
    ELSE IF Case_Ignorable(Head(s)) THEN case_ignorable_then_cased(Tail(s))
    ELSE Cased(Head(s))

\* U+03A3 maps to U+03C2 at the end of a word and to U+03C3 elsewhere
map_uppercase_sigma(from, i) ==
    LET is_word_final ==
            /\ case_ignorable_then_cased(Reverse(SubSeq(from, 1, i - 1)))
            /\ ~case_ignorable_then_cased(SubSeq(from, i + 1, Len(from)))
    IN  IF is_word_final THEN <<"fsigma">> ELSE <<"sigma">>

RECURSIVE LowerFrom(_, _)
LowerFrom(s, i) ==
    IF i > Len(s) THEN <<>>
    ELSE (IF s[i] = "SIGMA" THEN map_uppercase_sigma(s, i) ELSE to_lower(s[i]))
         \o LowerFrom(s, i + 1)

\* str::to_lowercase
to_lowercase(s) == LowerFrom(s, 1)

\* .enumerate().map(|(idx, line)| (idx + 1, line))
Numbered(ls) == [i \in 1..Len(ls) |-> <<(i - 1) + 1, ls[i]>>]

\* a mutant of search: the enumeration index is not raised by one
search_zero_based(pat, text) ==
    LET ls == Lines(text)
        keep(e) == Contains(e[2], pat)
    IN  SelectSeq([i \in 1..Len(ls) |-> <<i - 1, ls[i]>>], keep)

search(pat, text) ==
    LET keep(e) == Contains(e[2], pat)
    IN  SelectSeq(Numbered(Lines(text)), keep)

search_case_insensitive(pat, text) ==
    LET keep(e) == Contains(to_lowercase(e[2]), to_lowercase(pat))
    IN  SelectSeq(Numbered(Lines(text)), keep)

(***************************************************************************)
(* SpecMatch: the matchers on bounded inputs                               *)
(***************************************************************************)
InitMatch ==
    /\ pattern \in Strings(MaxPatternLen)
    /\ contents \in Strings(MaxContentsLen)
    /\ results = <<>>
    /\ matcherUsed = "none"
    /\ pc = "lib"
    /\ args = <<>>
    /\ envVar = "Absent"
    /\ fs = [p \in ArgStrings |-> ReadErr("NotFound")]
    /\ stdoutOpen = TRUE
    /\ configRes = NoResult
    /\ idx = 0
    /\ stdout = <<>>
    /\ stderr = <<>>
    /\ exitStatus = NoExit
    /\ runResult = "none"
    /\ readAttempts = 0

CallSearch ==
    /\ pc = "lib"
    /\ results' = search(pattern, contents)
    /\ matcherUsed' = "search"
    /\ UNCHANGED <<args, envVar, fs, stdoutOpen, pc, configRes, pattern, contents,
                   idx, stdout, stderr, exitStatus, runResult, readAttempts>>

CallSearchCaseInsensitive ==
    /\ pc = "lib"
    /\ results' = search_case_insensitive(pattern, contents)
    /\ matcherUsed' = "search_case_insensitive"
    /\ UNCHANGED <<args, envVar, fs, stdoutOpen, pc, configRes, pattern, contents,
                   idx, stdout, stderr, exitStatus, runResult, readAttempts>>

NextMatch == CallSearch \/ CallSearchCaseInsensitive

SpecMatch == InitMatch /\ [][NextMatch]_vars

(***************************************************************************)
(* Config::new, run and main                                               *)
(***************************************************************************)
Ok(c) == [tag |-> "Ok", config |-> c, err |-> "none"]

Err(e) == [tag |-> "Err", config |-> NoConfig, err |-> e]

\* env::var(name).is_err(): the variable is not set, or its value is not
\* valid Unicode
env_var_is_err(env) == env \in {"Absent", "NotUnicode"}

\* a mutant of ConfigNew: the program name is not discarded
ConfigNewKeepsProgramName(argv, env) ==
    IF argv = <<>> THEN Err("Didn't get pattern to match")
    ELSE IF Tail(argv) = <<>> THEN Err("Didn't get filename")
    ELSE Ok([pattern |-> argv[1], filename |-> argv[2],
             case_sensitive |-> env_var_is_err(env)])

\* Config::new(args), called with env as the state of CASE_INSENSITIVE
ConfigNew(argv, env) ==
    LET afterName == IF argv = <<>> THEN <<>> ELSE Tail(argv)
    IN  IF afterName = <<>> THEN Err("Didn't get pattern to match")
        ELSE LET afterPattern == Tail(afterName)
             IN  IF afterPattern = <<>> THEN Err("Didn't get filename")
                 ELSE Ok([pattern |-> Head(afterName),
                          filename |-> Head(afterPattern),
                          case_sensitive |-> env_var_is_err(env)])

Digit(d) ==
    CASE d = 0 -> "0" [] d = 1 -> "1" [] d = 2 -> "2" [] d = 3 -> "3"
      [] d = 4 -> "4" [] d = 5 -> "5" [] d = 6 -> "6" [] d = 7 -> "7"
      [] d = 8 -> "8" [] d = 9 -> "9"

\* Display of a usize: its decimal digits
RECURSIVE Decimal(_)
Decimal(n) ==
    IF n < 10 THEN <<Digit(n)>> ELSE Append(Decimal(n \div 10), Digit(n % 10))

\* the text println!("{}. {}", line_no, line) writes
Record(entry) == Decimal(entry[1]) \o <<".", " ">> \o entry[2] \o <<"LF">>

\* The command line holds valid Unicode strings (env::args yields Strings), at
\* most one path names a readable file, and writes to standard error succeed.
Init ==
    /\ args \in UNION {[1..n -> ArgStrings] : n \in 0..MaxArgs}
    /\ envVar \in EnvStates
    /\ \E st \in FileStates :
           fs = [p \in ArgStrings |-> IF p = SamplePath THEN st ELSE ReadErr("NotFound")]
    /\ stdoutOpen = TRUE
    /\ pc = "start"
    /\ configRes = NoResult
    /\ pattern = <<>>
    /\ contents = <<>>
    /\ results = <<>>
    /\ matcherUsed = "none"
    /\ idx = 0
    /\ stdout = <<>>
    /\ stderr = <<>>
    /\ exitStatus = NoExit
    /\ runResult = "none"
    /\ readAttempts = 0

Running == pc \in {"start", "run", "search", "print", "run_returned"}

\* the process environment changes (env::set_var, env::remove_var)
SetEnv ==
    /\ Running
    /\ \E v \in EnvStates \ {envVar} : envVar' = v
    /\ UNCHANGED <<args, fs, stdoutOpen, pc, configRes, pattern, contents, results,
                   matcherUsed, idx, stdout, stderr, exitStatus, runResult,
                   readAttempts>>

\* the reader of standard output goes away
CloseStdout ==
    /\ Running
    /\ stdoutOpen
    /\ stdoutOpen' = FALSE
    /\ UNCHANGED <<args, envVar, fs, pc, configRes, pattern, contents, results,
                   matcherUsed, idx, stdout, stderr, exitStatus, runResult,
                   readAttempts>>

\* main: Config::new(args).unwrap_or_else(|err| { eprintln!; process::exit(1) })
MainConfigNew ==
    /\ pc = "start"
    /\ LET r == ConfigNew(args, envVar)
       IN  /\ configRes' = r
           /\ IF r.tag = "Err"
              THEN /\ stderr' = Append(stderr, <<"Problem parsing arguments: ", r.err>>)
                   /\ exitStatus' = 1
                   /\ pc' = "exited"
              ELSE /\ pc' = "run"
                   /\ UNCHANGED <<stderr, exitStatus>>
    /\ UNCHANGED <<args, envVar, fs, stdoutOpen, pattern, contents, results,
                   matcherUsed, idx, stdout, runResult, readAttempts>>

\* a mutant of RunRead: a failed read is taken as empty contents
RunReadDefaulting ==
    /\ pc = "run"
    /\ readAttempts' = readAttempts + 1
    /\ LET r == fs[configRes.config.filename]
       IN  contents' = r.data
    /\ pc' = "search"
    /\ UNCHANGED <<args, envVar, fs, stdoutOpen, configRes, pattern, results,
                   matcherUsed, idx, stdout, stderr, exitStatus, runResult>>

\* run: let contents = fs::read_to_string(&config.filename)?;
RunRead ==
    /\ pc = "run"
    /\ readAttempts' = readAttempts + 1
    /\ LET r == fs[configRes.config.filename]
       IN  IF ~r.ok
           THEN /\ runResult' = "Err"
                /\ pc' = "run_returned"
                /\ UNCHANGED contents
           ELSE /\ contents' = r.data
                /\ pc' = "search"
                /\ UNCHANGED runResult
    /\ UNCHANGED <<args, envVar, fs, stdoutOpen, configRes, pattern, results,
                   matcherUsed, idx, stdout, stderr, exitStatus>>

\* run: let results = if config.case_sensitive { search } else { search_case_insensitive }
RunSearch ==
    /\ pc = "search"
    /\ pattern' = configRes.config.pattern
    /\ IF configRes.config.case_sensitive
       THEN /\ results' = search(configRes.config.pattern, contents)
            /\ matcherUsed' = "search"
       ELSE /\ results' = search_case_insensitive(configRes.config.pattern, contents)
            /\ matcherUsed' = "search_case_insensitive"
    /\ idx' = 0
    /\ pc' = "print"
    /\ UNCHANGED <<args, envVar, fs, stdoutOpen, configRes, contents, stdout, stderr,
                   exitStatus, runResult, readAttempts>>

\* run: one turn of the for loop; println! panics when the write fails, and the
\* panic ends the process with status 101
RunPrint ==
    /\ pc = "print"
    /\ idx < Len(results)
    /\ IF stdoutOpen
       THEN /\ stdout' = Append(stdout, Record(results[idx + 1]))
            /\ idx' = idx + 1
            /\ UNCHANGED <<pc, stderr, exitStatus>>
       ELSE /\ stderr' = Append(stderr, <<"panicked: ", "failed printing to stdout">>)
            /\ exitStatus' = 101
            /\ pc' = "exited"
            /\ UNCHANGED <<stdout, idx>>
    /\ UNCHANGED <<args, envVar, fs, stdoutOpen, configRes, pattern, contents,
                   results, matcherUsed, runResult, readAttempts>>

\* run: the loop is over, Ok(())
RunReturn ==
    /\ pc = "print"
    /\ idx = Len(results)
    /\ runResult' = "Ok"
    /\ pc' = "run_returned"
    /\ UNCHANGED <<args, envVar, fs, stdoutOpen, configRes, pattern, contents,
                   results, matcherUsed, idx, stdout, stderr, exitStatus,
                   readAttempts>>

\* a mutant of MainAfterRun: the error is reported, the process ends normally
MainAfterRunNoExit ==
    /\ pc = "run_returned"
    /\ stderr' = IF runResult = "Err"
                 THEN Append(stderr, <<"Encountered an error: ", "io error">>)
                 ELSE stderr
    /\ exitStatus' = 0
    /\ pc' = "exited"
    /\ UNCHANGED <<args, envVar, fs, stdoutOpen, configRes, pattern, contents,
                   results, matcherUsed, idx, stdout, runResult, readAttempts>>

\* main: if let Err(e) = run(&config) { eprintln!; process::exit(1) }, else return
MainAfterRun ==
    /\ pc = "run_returned"
    /\ IF runResult = "Err"
       THEN /\ stderr' = Append(stderr, <<"Encountered an error: ", "io error">>)
            /\ exitStatus' = 1
       ELSE /\ exitStatus' = 0
            /\ UNCHANGED stderr
    /\ pc' = "exited"
    /\ UNCHANGED <<args, envVar, fs, stdoutOpen, configRes, pattern, contents,
                   results, matcherUsed, idx, stdout, runResult, readAttempts>>

Next ==
    \/ SetEnv
    \/ CloseStdout
    \/ MainConfigNew
    \/ RunRead
    \/ RunSearch
    \/ RunPrint
    \/ RunReturn
    \/ MainAfterRun

Spec == Init /\ [][Next]_vars

(***************************************************************************)
(* Claims about the matchers (checked under SpecMatch)                     *)
(***************************************************************************)
\* p occurs in l as a contiguous run of characters
IsSubstring(p, l) ==
    \E a \in 0..Len(l) : \E b \in a..Len(l) : SubSeq(l, a + 1, b) = p

HasNewline(s) == \E j \in 1..Len(s) : s[j] = "LF"

\* rs holds exactly the lines of text whose position is in chosen, each once,
\* paired with its 1-based position
SelectsExactly(rs, text, chosen) ==
    LET ls == Lines(text)
    IN  /\ \A i \in 1..Len(ls) :
               (\E k \in 1..Len(rs) : rs[k] = <<i, ls[i]>>) <=> i \in chosen
        /\ \A k \in 1..Len(rs) :
               /\ rs[k][1] \in 1..Len(ls)
               /\ rs[k][2] = ls[rs[k][1]]
        /\ \A k, m \in 1..Len(rs) : rs[k][1] = rs[m][1] => k = m

\* C1: a line is in the result of search, paired with its 1-based position, iff
\* it contains the pattern exactly; it is in the result of
\* search_case_insensitive iff its lowercase form contains the lowercase form of
\* the pattern.  An empty pattern selects every line, contents without lines
\* give an empty result, a pattern with a newline selects no line.
C1_MatchIffContains ==
    LET ls == Lines(contents)
        exact == {i \in 1..Len(ls) : IsSubstring(pattern, ls[i])}
        folded == {i \in 1..Len(ls) :
                       IsSubstring(to_lowercase(pattern), to_lowercase(ls[i]))}
    IN  /\ matcherUsed = "search" => SelectsExactly(results, contents, exact)
        /\ matcherUsed = "search_case_insensitive" =>
               SelectsExactly(results, contents, folded)
        /\ matcherUsed /= "none" =>
               /\ pattern = <<>> => Len(results) = Len(ls)
               /\ contents = <<>> => results = <<>>
               /\ HasNewline(pattern) => results = <<>>

\* a call that kept one line of several and dropped another
C1_Witness ==
    /\ matcherUsed = "search_case_insensitive"
    /\ pattern = <<"a">>
    /\ contents = <<"'", "LF", "A">>
    /\ results = << <<2, <<"A">>>> >>

\* C2: every entry search returns is also returned by search_case_insensitive
\* for the same pattern and contents.
C2_InsensitiveIsSuperset ==
    [][(matcherUsed = "search" /\ matcherUsed' = "search_case_insensitive") =>
           \A k \in 1..Len(results) :
               \E m \in 1..Len(results') : results'[m] = results[k]]_vars

\* number of lines of a text: one per newline, and one more for a last line
\* that no newline ends
NumLines(text) ==
    Cardinality({j \in 1..Len(text) : text[j] = "LF"})
        + (IF text /= <<>> /\ text[Len(text)] /= "LF" THEN 1 ELSE 0)

\* C3: for both matchers every returned line number is in 1..NumLines(contents),
\* the numbers are strictly increasing, and the result has at most
\* NumLines(contents) entries.
C3_LineNumbersInRangeIncreasing ==
    matcherUsed /= "none" =>
        /\ \A k \in 1..Len(results) : results[k][1] \in 1..NumLines(contents)
        /\ \A k \in 1..(Len(results) - 1) : results[k][1] < results[k + 1][1]
        /\ Len(results) <= NumLines(contents)

\* contents that end in a newline, every line returned
C3_Witness ==
    /\ matcherUsed = "search"
    /\ contents = <<"a", "LF", "LF">>
    /\ pattern = <<>>
    /\ Len(results) = 2
    /\ results[2] = <<2, <<>>>>

(***************************************************************************)
(* Claims about Config::new, run and main (checked under Spec)             *)
(***************************************************************************)
Config == configRes.config

ReadFailed == readAttempts > 0 /\ ~fs[Config.filename].ok

ReadSucceeded == readAttempts > 0 /\ fs[Config.filename].ok

\* the records of a result, in its order
Records(rs) == [k \in 1..Len(rs) |-> Record(rs[k])]

\* a write to standard output has failed
EmitFailed == \E k \in 1..Len(stderr) : stderr[k][2] = "failed printing to stdout"

\* Config::new makes the config case-insensitive iff the variable is present
C4_PresenceDecides ==
    (pc = "start" /\ configRes'.tag = "Ok") =>
        (configRes'.config.case_sensitive <=> envVar = "Absent")

\* run calls the matcher the config names, and the config never changes
C4_RunFollowsConfig ==
    /\ (pc = "search" /\ pc' = "print") =>
           matcherUsed' = IF Config.case_sensitive THEN "search"
                          ELSE "search_case_insensitive"
    /\ configRes.tag = "Ok" => configRes' = configRes

\* C4: the case policy is fixed when Config::new is called: case-insensitive
\* iff CASE_INSENSITIVE is present then, whatever its value; run uses the
\* matcher of that policy whatever the environment becomes afterwards.
C4_CasePolicyFixedAtConfig == [][C4_PresenceDecides /\ C4_RunFollowsConfig]_vars

\* the part of C4 that the code satisfies
C4_MatcherFixedByConfig == [][C4_RunFollowsConfig]_vars

\* C5: Config::new fails with the missing-pattern error when nothing follows the
\* program name and with the missing-filename error when only a pattern does,
\* both before any file is read; with two or more arguments after the program
\* name it succeeds with the first as pattern and the second as filename.
C5_ConfigNewArguments ==
    pc /= "start" =>
        /\ Len(args) <= 1 =>
               /\ configRes = Err("Didn't get pattern to match")
               /\ readAttempts = 0
        /\ Len(args) = 2 =>
               /\ configRes = Err("Didn't get filename")
               /\ readAttempts = 0
        /\ Len(args) >= 3 =>
               /\ configRes.tag = "Ok"
               /\ Config.pattern = args[2]
               /\ Config.filename = args[3]

\* only a pattern was given: the missing-filename error, and no file was read
C5_Witness ==
    /\ pc = "exited"
    /\ Len(args) = 2
    /\ configRes.err = "Didn't get filename"
    /\ readAttempts = 0

\* C6: when the file cannot be read, run returns an error, no matcher has been
\* invoked and nothing has been written to standard output.
C6_UnreadableFileNoOutput ==
    ReadFailed =>
        /\ runResult = "Err"
        /\ matcherUsed = "none"
        /\ stdout = <<>>

\* the file exists but is not valid text; the process has ended
C6_Witness ==
    /\ pc = "exited"
    /\ ReadFailed
    /\ fs[Config.filename].error = "InvalidData"
    /\ runResult = "Err"

\* C7: when the file has been read, run writes exactly the records of the
\* matcher's result, in order, and then returns success.
C7_OneRecordPerEntryThenOk ==
    (pc = "exited" /\ ReadSucceeded) =>
        /\ stdout = Records(results)
        /\ runResult = "Ok"

\* C8: when writing a record fails, run returns an error to its caller; it
\* returns success only when all records have been written.
C8_EmitFailureIsError ==
    /\ (pc = "exited" /\ EmitFailed) => runResult = "Err"
    /\ runResult = "Ok" => stdout = Records(results)

\* the part of C8 that the code satisfies
C8_OkOnlyAfterAllRecords == runResult = "Ok" => stdout = Records(results)

\* C9: the exit status is zero iff Config::new and run both succeeded; a
\* configuration error and a read error each leave one diagnostic on standard
\* error and a non-zero status, and after a configuration error run has not
\* been invoked.
C9_ExitStatus ==
    /\ exitStatus = 0 <=> (pc = "exited" /\ configRes.tag = "Ok" /\ runResult = "Ok")
    /\ configRes.tag = "Err" =>
           /\ pc = "exited"
           /\ exitStatus \notin {0, NoExit}
           /\ stderr = << <<"Problem parsing arguments: ", configRes.err>> >>
           /\ readAttempts = 0
           /\ matcherUsed = "none"
           /\ runResult = "none"
    /\ (pc = "exited" /\ ReadFailed) =>
           /\ exitStatus \notin {0, NoExit}
           /\ stderr = << <<"Encountered an error: ", "io error">> >>

\* a file with lines, none of them matching: status zero and no output
C9_Witness ==
    /\ pc = "exited"
    /\ exitStatus = 0
    /\ Len(Lines(contents)) = 3
    /\ results = <<>>
    /\ stdout = <<>>
    /\ stderr = <<>>

====
